---------------------------- MODULE Spec2Model ----------------------------
(***************************************************************************)
(* Items budgeting prototype (src/app.py): the SQLite store of categories  *)
(* and clicks, the functions that read and write it, and the two handlers  *)
(* of the page that wrap them (the "new_cat" form and the reset button).   *)
(*                                                                         *)
(* Representation:                                                         *)
(*   - a table is the set of its rows, a row a record of its columns;      *)
(*   - a TEXT value that the code compares or trims (ts, name, label) is   *)
(*     the sequence of its characters; ts characters are code points,      *)
(*     because SQLite orders TEXT by memcmp;                               *)
(*   - unit_value (REAL) is held in hundredths, 0.7 is 70;                 *)
(*   - the number handed to int() is held in tenths, 2.5 is 25.            *)
(***************************************************************************)
EXTENDS Integers, Sequences, FiniteSets, TLC

VARIABLES
    categories,   \* table categories (src/app.py:20-26)
    clicks,       \* table clicks (src/app.py:29-36)
    journal,      \* history variable: the stored clicks in creation order,
                  \* each with the instant utcnow() returned for it
    issued,       \* history variable: the largest rowid the clicks table of
                  \* the current file has handed out
    view,         \* the rows of the "Vue par periode" summary last rendered
    last          \* the last call: its name and the exception it raised

vars == <<categories, clicks, journal, issued, view, last>>

-----------------------------------------------------------------------------
(* Bounds of the model *)

MaxCategories == 4
MaxClicks == 2

-----------------------------------------------------------------------------
(* Text *)

Burgers == <<"B","u","r","g","e","r","s">>
Equipement == <<"E","q","u","i","p","e","m","e","n","t">>
Bonbons == <<"B","o","n","b","o","n","s">>
LowerBurgers == <<"b","u","r","g","e","r","s">>
Snacks == <<"S","n","a","c","k","s">>
Blank == <<" ">>
PaddedSnacks == <<" ">> \o Snacks \o <<" ">>
ItemLabel == <<"i","t","e","m">>
BurgerLabel == <<"b","u","r","g","e","r">>
EquipLabel == <<"e","q","u","i","p">>
BonbonLabel == <<"b","o","n","b","o","n">>

\* str.strip(): leading and trailing whitespace removed
RECURSIVE LStrip(_)
LStrip(s) == IF s # <<>> /\ Head(s) = " " THEN LStrip(Tail(s)) ELSE s

RECURSIVE RStrip(_)
RStrip(s) ==
    IF s # <<>> /\ s[Len(s)] = " " THEN RStrip(SubSeq(s, 1, Len(s) - 1)) ELSE s

Strip(s) == RStrip(LStrip(s))

\* int(x) of a number given in tenths: truncation toward zero
PyInt(tenths) == IF tenths >= 0 THEN tenths \div 10 ELSE -((-tenths) \div 10)

-----------------------------------------------------------------------------
(* Rows and rowids *)

Ids(rows) == {r.id : r \in rows}

MaxOf(S) == CHOOSE m \in S : \A x \in S : x <= m

\* INTEGER PRIMARY KEY without AUTOINCREMENT: the rowid of a new row is one
\* more than the largest rowid in the table, 1 in an empty table
NextRowid(rows) == IF rows = {} THEN 1 ELSE MaxOf(Ids(rows)) + 1

\* the column declared without UNIQUE
NameTakenNever(cats, name) == FALSE

\* name TEXT UNIQUE, BINARY collation: equal character for character
NameTaken(cats, name) == \E c \in cats : c.name = name

NoError == "none"
IntegrityError == "sqlite3.IntegrityError"

\* INSERT INTO categories (name, items_per_period, unit_value, unit_label)
InsertCategory(cats, name, ip, uv, ul) ==
    IF NameTaken(cats, name)
    THEN [error |-> IntegrityError, rows |-> cats]
    ELSE [error |-> NoError,
          rows  |-> cats \cup {[id |-> NextRowid(cats), name |-> name,
                                items_per_period |-> ip, unit_value |-> uv,
                                unit_label |-> ul]}]

\* the list `defaults` of add_default_categories
defaults ==
    << <<Burgers, 3, 1600, BurgerLabel>>,
       <<Equipement, 3, 6000, EquipLabel>>,
       <<Bonbons, 20, 70, BonbonLabel>> >>

\* the loop without its try/except: the first IntegrityError ends it
RECURSIVE SeedFromAbort(_, _)
SeedFromAbort(cats, i) ==
    IF i > Len(defaults) THEN cats
    ELSE LET d == defaults[i]
             res == InsertCategory(cats, d[1], d[2], d[3], d[4])
         IN  IF res.error # NoError THEN cats ELSE SeedFromAbort(res.rows, i + 1)

\* the loop of add_default_categories from its i-th element on: an insert
\* that raises IntegrityError is passed over
RECURSIVE SeedFrom(_, _)
SeedFrom(cats, i) ==
    IF i > Len(defaults) THEN cats
    ELSE LET d == defaults[i]
         IN  SeedFrom(InsertCategory(cats, d[1], d[2], d[3], d[4]).rows, i + 1)

\* ORDER BY id DESC
RECURSIVE SortByIdDesc(_)
SortByIdDesc(rows) ==
    IF rows = {} THEN <<>>
    ELSE LET first == CHOOSE r \in rows : \A q \in rows : r.id >= q.id
         IN  <<first>> \o SortByIdDesc(rows \ {first})

\* SELECT ... FROM categories ORDER BY id
RECURSIVE SortById(_)
SortById(rows) ==
    IF rows = {} THEN <<>>
    ELSE LET first == CHOOSE r \in rows : \A q \in rows : r.id <= q.id
         IN  <<first>> \o SortById(rows \ {first})

list_categories == SortById(categories)

-----------------------------------------------------------------------------
(* Dates and timestamps *)

Instant(y, mo, d, h, mi, sec, us) ==
    [year |-> y, month |-> mo, day |-> d, hour |-> h, minute |-> mi,
     second |-> sec, microsecond |-> us]

\* the decimal digits of n, zero padded to width, as code points ("0" is 48)
RECURSIVE Digits(_, _)
Digits(n, width) ==
    IF width = 0 THEN <<>> ELSE Digits(n \div 10, width - 1) \o <<48 + (n % 10)>>

Hyphen == <<45>>
Colon == <<58>>
LetterT == <<84>>
Dot == <<46>>

\* date(y, m, d).isoformat(): YYYY-MM-DD
DateIso(y, mo, d) ==
    Digits(y, 4) \o Hyphen \o Digits(mo, 2) \o Hyphen \o Digits(d, 2)

\* datetime.isoformat(): YYYY-MM-DDTHH:MM:SS, followed by .ffffff unless the
\* microsecond is 0
DateTimeIso(t) ==
    DateIso(t.year, t.month, t.day) \o LetterT
        \o Digits(t.hour, 2) \o Colon \o Digits(t.minute, 2) \o Colon
        \o Digits(t.second, 2)
        \o (IF t.microsecond = 0 THEN <<>> ELSE Dot \o Digits(t.microsecond, 6))

\* SQLite's < on TEXT (BINARY collation): memcmp on the common prefix, then
\* the shorter text is the smaller
RECURSIVE TextLess(_, _)
TextLess(a, b) ==
    IF b = <<>> THEN FALSE
    ELSE IF a = <<>> THEN TRUE
    ELSE IF Head(a) # Head(b) THEN Head(a) < Head(b)
    ELSE TextLess(Tail(a), Tail(b))

\* December followed by January of the same year
NextMonthIsoSameYear(year, month) ==
    IF month = 12 THEN DateIso(year, 1, 1) ELSE DateIso(year, month + 1, 1)

\* the first day of the month that follows (year, month)
NextMonthIso(year, month) ==
    IF month = 12 THEN DateIso(year + 1, 1, 1) ELSE DateIso(year, month + 1, 1)

\* SELECT COUNT(*) FROM clicks WHERE category_id = ? AND ts >= ? AND ts < ?
CountClicks(rows, category_id, start, next_month) ==
    Cardinality({c \in rows : /\ c.category_id = category_id
                              /\ ~TextLess(c.ts, start)
                              /\ TextLess(c.ts, next_month)})

clicks_this_period(category_id, year, month) ==
    CountClicks(clicks, category_id, DateIso(year, month, 1),
                NextMonthIso(year, month))

\* items_per_period - n_used, without the max
remainingUnclamped(items_per_period, n_used) == items_per_period - n_used

\* max(0, items_per_period - n_used)
remaining(items_per_period, n_used) ==
    IF items_per_period - n_used > 0 THEN items_per_period - n_used ELSE 0

\* one row of `summary`, with year and month taken from date.today()
SummaryRow(cat, today) ==
    LET used == clicks_this_period(cat.id, today.year, today.month)
    IN  [category |-> cat.name, items_per_period |-> cat.items_per_period,
         used |-> used, remaining |-> remaining(cat.items_per_period, used),
         unit_value |-> cat.unit_value, unit_label |-> cat.unit_label]

-----------------------------------------------------------------------------
(* Clicks *)

\* INSERT INTO clicks (category_id, ts, reason, amount); the FOREIGN KEY
\* clause is not enforced: no connection sets PRAGMA foreign_keys
InsertClick(rows, category_id, ts, reason, amount) ==
    rows \cup {[id |-> NextRowid(rows), category_id |-> category_id,
                ts |-> ts, reason |-> reason, amount |-> amount]}

\* ORDER BY id ASC: the oldest click is deleted
DeleteFirstClick(rows) ==
    IF rows = {} THEN rows
    ELSE {c \in rows : \E d \in rows : d.id < c.id}

\* ORDER BY ts DESC: the click with the latest timestamp is deleted
DeleteNewestTs(rows) ==
    IF rows = {} THEN rows
    ELSE rows \ {CHOOSE c \in rows : \A d \in rows : ~TextLess(c.ts, d.ts)}

\* SELECT id FROM clicks ORDER BY id DESC LIMIT 1, then DELETE ... WHERE id = ?
DeleteLastClick(rows) ==
    IF rows = {} THEN rows
    ELSE {c \in rows : c.id # MaxOf(Ids(rows))}

\* the file kept and only the categories table emptied
StaleStore == [categories |-> {}, clicks |-> clicks]

\* os.remove(DB_PATH) followed by init_db(): both tables exist and are empty
EmptyStore == [categories |-> {}, clicks |-> {}]

-----------------------------------------------------------------------------
(* Inputs *)

\* what utcnow() returns when a click is recorded
LastSecondOfDecember == Instant(2023, 12, 31, 23, 59, 59, 0)
FirstInstantOfJanuary == Instant(2024, 1, 1, 0, 0, 0, 0)
MidJanuary == Instant(2024, 1, 15, 10, 30, 0, 123456)
Instants == {LastSecondOfDecember, FirstInstantOfJanuary, MidJanuary}

\* what date.today() returns when the page is rendered
Todays == {[year |-> 2024, month |-> 1, day |-> 15]}

\* the reason the +1 button passes (a dash) and one of `reasons`
Dash == <<"-">>
Faim == <<"f","a","i","m">>

\* Spec: many category inputs, one click input.
\* A call of create_category: name, items_per_period, unit_value, unit_label
CategoryInputs ==
    { <<Burgers, 10, 250, ItemLabel>>,
      <<LowerBurgers, 10, 250, BurgerLabel>>,
      <<LowerBurgers, 15, 250, BurgerLabel>>,
      <<Burgers, 0, 250, ItemLabel>>,
      <<LowerBurgers, 10, -100, ItemLabel>>,
      <<Blank, 10, 250, ItemLabel>> }
FormNameInputs == {PaddedSnacks, Blank}
FormItemsInputs == {10}
FormUnitValueInputs == {0}
FormLabelInputs == {Blank}
FewCategoryIds == {1}
FewInstants == {MidJanuary}
FewClickArgs == {<<Dash, 1>>, <<Dash, 0>>}

\* SpecClicks: the categories of the form alone, many click inputs.
\* A click is recorded with a category id, a pair of reason and amount, and
\* the instant utcnow() returns
CategoryIdInputs == {1, 4}
ClickArgs == {<<Dash, 1>>, <<Faim, 2>>}

-----------------------------------------------------------------------------
(* Operations                                                              *)
(* Every function that writes the store discards the page drawn before it: *)
(* the script draws the main layout again after each handler.              *)

Called(op, err) == [op |-> op, error |-> err]

\* the page shown before the script has rendered the summary
NotRendered == <<>>

\* the store after init_db() on a new file: both tables exist and are empty
Init ==
    /\ categories = {}
    /\ clicks = {}
    /\ journal = <<>>
    /\ issued = 0
    /\ view = NotRendered
    /\ last = Called("init_db", NoError)

add_default_categories ==
    /\ categories' = SeedFrom(categories, 1)
    /\ last' = Called("add_default_categories", NoError)
    /\ view' = NotRendered
    /\ UNCHANGED <<clicks, journal, issued>>

create_category(name, items_per_period, unit_value, unit_label) ==
    LET res == InsertCategory(categories, name, PyInt(items_per_period),
                              unit_value, unit_label)
    IN  /\ NameTaken(categories, name) \/ Cardinality(categories) < MaxCategories
        /\ categories' = res.rows
        /\ last' = Called("create_category", res.error)
        /\ view' = NotRendered
        /\ UNCHANGED <<clicks, journal, issued>>

\* the form "new_cat": create_category is called only with a name that is
\* not empty once stripped; a blank label becomes "item"
new_cat(name, items_per_period, unit_value, unit_label) ==
    IF Strip(name) # <<>>
    THEN create_category(Strip(name), items_per_period, unit_value,
                         IF Strip(unit_label) # <<>> THEN Strip(unit_label)
                                                     ELSE ItemLabel)
    ELSE /\ last' = Called("new_cat", NoError)
         /\ UNCHANGED <<categories, clicks, journal, issued, view>>

record_click(category_id, reason, amount, now) ==
    /\ Cardinality(clicks) < MaxClicks
    /\ clicks' = InsertClick(clicks, category_id, DateTimeIso(now), reason, amount)
    /\ journal' = Append(journal, [id |-> NextRowid(clicks), at |-> now])
    /\ issued' = IF NextRowid(clicks) > issued THEN NextRowid(clicks) ELSE issued
    /\ last' = Called("record_click", NoError)
    /\ view' = NotRendered
    /\ UNCHANGED categories

undo_last_click ==
    /\ clicks' = DeleteLastClick(clicks)
    /\ journal' = SelectSeq(journal, LAMBDA e : e.id \in Ids(clicks'))
    /\ last' = Called("undo_last_click", NoError)
    /\ view' = NotRendered
    /\ UNCHANGED <<categories, issued>>

\* the body of the reset button: the file removed, init_db(),
\* add_default_categories(), then the script reruns
reset_db ==
    /\ categories' = SeedFrom(EmptyStore.categories, 1)
    /\ clicks' = EmptyStore.clicks
    /\ journal' = <<>>
    /\ issued' = 0
    /\ last' = Called("reset_db", NoError)
    /\ view' = NotRendered

\* the summary of the main layout, one row per category in list order
render(today) ==
    /\ view' = [i \in 1..Len(list_categories) |->
                    SummaryRow(list_categories[i], today)]
    /\ last' = Called("render", NoError)
    /\ UNCHANGED <<categories, clicks, journal, issued>>

Next ==
    \/ add_default_categories
    \/ \E a \in CategoryInputs : create_category(a[1], a[2], a[3], a[4])
    \/ \E n \in FormNameInputs, ip \in FormItemsInputs,
          uv \in FormUnitValueInputs, ul \in FormLabelInputs :
              new_cat(n, ip, uv, ul)
    \/ \E cid \in FewCategoryIds, a \in FewClickArgs, now \in FewInstants :
          record_click(cid, a[1], a[2], now)
    \/ undo_last_click
    \/ reset_db
    \/ \E today \in Todays : render(today)

Spec == Init /\ [][Next]_vars

NextClicks ==
    \/ add_default_categories
    \/ \E n \in FormNameInputs, ip \in FormItemsInputs,
          uv \in FormUnitValueInputs, ul \in FormLabelInputs :
              new_cat(n, ip, uv, ul)
    \/ \E cid \in CategoryIdInputs, a \in ClickArgs, now \in Instants :
          record_click(cid, a[1], a[2], now)
    \/ undo_last_click
    \/ reset_db
    \/ \E today \in Todays : render(today)

SpecClicks == Init /\ [][NextClicks]_vars

-----------------------------------------------------------------------------
(* Vocabulary of the properties *)

Names(cats) == {c.name : c \in cats}

\* the calls of create_category that the form makes
FormCalls ==
    {<<Strip(n), ip, uv, IF Strip(ul) # <<>> THEN Strip(ul) ELSE ItemLabel>> :
        n \in {m \in FormNameInputs : Strip(m) # <<>>},
        ip \in FormItemsInputs, uv \in FormUnitValueInputs,
        ul \in FormLabelInputs}

\* every call of create_category
Calls == CategoryInputs \cup FormCalls

DefaultNames == {Burgers, Equipement, Bonbons}

\* the categories table of the first startup
FirstStartupCategories ==
    {[id |-> 1, name |-> Burgers, items_per_period |-> 3, unit_value |-> 1600,
      unit_label |-> BurgerLabel],
     [id |-> 2, name |-> Equipement, items_per_period |-> 3,
      unit_value |-> 6000, unit_label |-> EquipLabel],
     [id |-> 3, name |-> Bonbons, items_per_period |-> 20, unit_value |-> 70,
      unit_label |-> BonbonLabel]}

\* the attributes add_default_categories gives the default called name
DefaultAttributes(name) ==
    CHOOSE d \in FirstStartupCategories : d.name = name

\* createCategory's constraints on its input
ValidCategoryInput(name, items_per_period, unit_value) ==
    /\ items_per_period > 0 /\ items_per_period % 10 = 0
    /\ unit_value >= 0
    /\ Strip(name) # <<>>

-----------------------------------------------------------------------------
(* Properties of the categories *)

\* C1: create_category with a name that a stored category already has,
\* character for character, raises the store's uniqueness error and leaves
\* both tables as they were; no two stored categories ever share a name.
C1_DuplicateNameRejected ==
    [][/\ \A c, d \in categories' : c.name = d.name => c = d
       /\ last'.op = "create_category"
              => \/ /\ last'.error = IntegrityError
                    /\ categories' = categories
                    /\ clicks' = clicks
                 \/ \A a \in Calls :
                       a[1] \in Names(categories)
                           => ~create_category(a[1], a[2], a[3], a[4])]_vars

\* a duplicate name has just been refused while a differently cased name
\* is stored next to it
C1_Witness ==
    /\ last = Called("create_category", IntegrityError)
    /\ {Burgers, LowerBurgers} \subseteq Names(categories)

\* C5: every stored category has items_per_period > 0, unit_value >= 0 and
\* a name that is not empty once stripped, and every stored click has
\* amount > 0, because invalid input is rejected before it is persisted.
C5_OnlyValidRowsStored ==
    /\ \A c \in categories : /\ c.items_per_period > 0
                             /\ c.unit_value >= 0
                             /\ Strip(c.name) # <<>>
    /\ \A k \in clicks : k.amount > 0

\* C6: add_default_categories raises nothing, keeps every stored category
\* as it is (one that merely bears a default name included), and inserts
\* exactly the defaults whose names were missing, with their attributes.
C6_SeedIdempotent ==
    [][last'.op = "add_default_categories"
          => /\ last'.error = NoError
             /\ categories \subseteq categories'
             /\ clicks' = clicks
             /\ Names(categories' \ categories) = DefaultNames \ Names(categories)
             /\ Cardinality(categories') =
                    Cardinality(categories)
                        + Cardinality(DefaultNames \ Names(categories))
             /\ \A c \in categories' \ categories :
                    LET d == DefaultAttributes(c.name)
                    IN  /\ c.items_per_period = d.items_per_period
                        /\ c.unit_value = d.unit_value
                        /\ c.unit_label = d.unit_label
             /\ (DefaultNames \subseteq Names(categories)
                    => Len(SortById(categories')) = Len(list_categories))]_vars

\* the defaults were seeded over a category that already bore the name
\* Burgers with other attributes, and that category is still as it was
C6_Witness ==
    /\ last.op = "add_default_categories"
    /\ DefaultNames \subseteq Names(categories)
    /\ \E c \in categories : c.name = Burgers /\ c.items_per_period # 3

\* C7: after the reset (the file removed, the schema created, the defaults
\* seeded) the categories are exactly the three defaults of the first
\* startup and no click is stored.
C7_ResetRestoresFirstStartup ==
    last.op = "reset_db"
        => /\ categories = FirstStartupCategories
           /\ clicks = {}

C7_Witness ==
    /\ last.op = "reset_db"
    /\ Cardinality(categories) = 3

\* C8: after a valid create_category whose name was not stored, the list
\* holds exactly one entry of that name, with the attributes given; every
\* category listed before is still listed, unchanged; the list is in
\* ascending id order.  (SortById(categories') is list_categories after the
\* call.)
C8_CreateAddsExactlyOne ==
    [][last'.op = "create_category"
          => \A a \in {c \in Calls : ValidCategoryInput(c[1], c[2], c[3])} :
                (/\ \A c \in categories : c.name # a[1]
                 /\ create_category(a[1], a[2], a[3], a[4]))
                    => LET before == list_categories
                           after  == SortById(categories')
                           same   == {i \in 1..Len(after) : after[i].name = a[1]}
                       IN  /\ last'.error = NoError
                           /\ Cardinality(same) = 1
                           /\ \A i \in same :
                                  /\ after[i].items_per_period * 10 = a[2]
                                  /\ after[i].unit_value = a[3]
                                  /\ after[i].unit_label = a[4]
                           /\ \A j \in 1..Len(before) :
                                  \E i \in 1..Len(after) : after[i] = before[j]
                           /\ Len(after) = Len(before) + 1
                           /\ \A i, j \in 1..Len(after) :
                                  i < j => after[i].id < after[j].id]_vars

\* a valid category was created next to one stored before it
C8_Witness ==
    /\ last = Called("create_category", NoError)
    /\ \E c \in categories : 
           /\ c.id = MaxOf(Ids(categories))
           /\ ValidCategoryInput(c.name, c.items_per_period * 10, c.unit_value)
    /\ Cardinality(categories) >= 2

-----------------------------------------------------------------------------
(* Properties of the clicks *)

\* chronological order of two instants
Earlier(a, b) ==
    LET ta == <<a.year, a.month, a.day, a.hour, a.minute, a.second,
                a.microsecond>>
        tb == <<b.year, b.month, b.day, b.hour, b.minute, b.second,
                b.microsecond>>
    IN  \E i \in 1..7 : /\ ta[i] < tb[i]
                        /\ \A j \in 1..(i - 1) : ta[j] = tb[j]

FirstOfMonth(year, month) == Instant(year, month, 1, 0, 0, 0, 0)

FirstOfFollowingMonth(year, month) ==
    IF month = 12 THEN FirstOfMonth(year + 1, 1) ELSE FirstOfMonth(year, month + 1)

Years == {2023, 2024}
Months == 1..12

StoredClick(id) == CHOOSE k \in clicks : k.id = id

\* the stored clicks of a category created within the month
CreatedInMonth(category_id, year, month) ==
    {i \in DOMAIN journal :
        /\ StoredClick(journal[i].id).category_id = category_id
        /\ ~Earlier(journal[i].at, FirstOfMonth(year, month))
        /\ Earlier(journal[i].at, FirstOfFollowingMonth(year, month))}

\* C2: clicks_this_period(c, year, month) is the number of stored clicks of
\* c, each counted once whatever its amount, created at or after the first
\* instant of the month and before the first instant of the following month
\* (January of year + 1 after December).
C2_CountIsClicksOfMonth ==
    \A cid \in CategoryIdInputs \cup Ids(categories), y \in Years, m \in Months :
        clicks_this_period(cid, y, m) = Cardinality(CreatedInMonth(cid, y, m))

\* one category holds a click of the last second of December 2023 and a
\* click, of amount 2, of the first instant of January 2024
C2_Witness ==
    \E a, b \in clicks :
        /\ a.category_id = b.category_id
        /\ a.ts = DateTimeIso(LastSecondOfDecember)
        /\ b.ts = DateTimeIso(FirstInstantOfJanuary)
        /\ b.amount = 2
        /\ clicks_this_period(a.category_id, 2023, 12) = 1
        /\ clicks_this_period(a.category_id, 2024, 1) = 1

\* C3: undo_last_click raises nothing and leaves the categories alone; it
\* removes the click of the highest id and no other, and changes nothing
\* when no click is stored.
C3_UndoRemovesHighestId ==
    [][last'.op = "undo_last_click"
          => /\ last'.error = NoError
             /\ categories' = categories
             /\ clicks = {} => clicks' = {}
             /\ clicks # {}
                    => \E k \in clicks : /\ \A d \in clicks : d.id <= k.id
                                         /\ clicks' = clicks \ {k}]_vars

\* an undo has removed one of two clicks
C3_Witness ==
    /\ last.op = "undo_last_click"
    /\ clicks # {}
    /\ issued > Cardinality(clicks)

\* C4: every stored click's category_id is the id of a stored category,
\* because record_click refuses an id that is not.
C4_ClicksReferenceCategories ==
    \A k \in clicks : k.category_id \in Ids(categories)

\* C9: every rendered row shows remaining = max(0, items_per_period - used),
\* which is never negative and 0 once used has reached the quota; and
\* record_click is not refused on account of the quota: while the table has
\* room in the model, it can be called for every category.
C9_RemainingClampedQuotaSoft ==
    /\ \A i \in DOMAIN view :
           /\ view[i].remaining >= 0
           /\ view[i].used >= view[i].items_per_period => view[i].remaining = 0
           /\ view[i].used < view[i].items_per_period
                  => view[i].remaining = view[i].items_per_period - view[i].used
    /\ \A c \in categories :
           Cardinality(clicks) < MaxClicks
               => ENABLED record_click(c.id, Dash, 1, MidJanuary)

\* a category of quota 1 is shown with 2 clicks used
C9_Witness ==
    \E i \in DOMAIN view :
        /\ view[i].items_per_period > 0
        /\ view[i].used > view[i].items_per_period
        /\ view[i].remaining = 0

\* C10: the ids of the stored clicks are in creation order; a new click
\* receives an id above every stored one and changes no stored click; the
\* click an undo deletes is the most recently created one still stored.
C10_IdOrderIsCreationOrder ==
    [][/\ {journal'[i].id : i \in DOMAIN journal'} = Ids(clicks')
       /\ \A i, j \in DOMAIN journal' : i < j => journal'[i].id < journal'[j].id
       /\ last'.op = "record_click"
              => \E k \in clicks' : /\ k \notin clicks
                                    /\ \A d \in clicks : d.id < k.id
                                    /\ clicks' = clicks \cup {k}
       /\ (last'.op = "undo_last_click" /\ journal # <<>>)
              => clicks' = {c \in clicks : c.id # journal[Len(journal)].id}]_vars

\* a click has just received an id that an undone click had before it
C10_Witness ==
    /\ last.op = "record_click"
    /\ clicks # {}
    /\ MaxOf(Ids(clicks)) < issued

=============================================================================
